---- MODULE Spec2Model ----
(***************************************************************************)
(* A model of ema_gen.py, the EMA schedule generator.                      *)
(*                                                                         *)
(* random_minute_offsets (the Window Sampler) is modelled one loop         *)
(* iteration per step; its callers (generate_schedule / make_sample_times  *)
(* / random_timedeltas under main, and interval_test) are modelled one     *)
(* call and one return per step.  Python lists are sequences (list index   *)
(* i is sequence index i + 1), random.randrange draws are existential      *)
(* choices, and an exception in flight is the variable exc.                *)
(***************************************************************************)
EXTENDS Integers, Sequences, FiniteSets, TLC

VARIABLES
    args,             \* the arguments of the entry point that is running
    pc,               \* position of the caller of the sampler
    \* ---- the frame of random_minute_offsets
    num_samples, total_minutes, gap_minutes, day_jitter_scale,
    day_jitter_max, day_jitter, fragment_length, iter, time_offsets,
    spc,              \* "idle", "called", "loop", "returned", "raised"
    ret,              \* the value random_minute_offsets returned
    exc,              \* the exception in flight ("" when there is none)
    attempts,         \* history: loop bodies entered by the current call
    calls,            \* history: calls of random_minute_offsets so far
    \* ---- generate_schedule / main
    day, schedule, generated, stdout_rows,
    \* ---- interval_test
    i, log, exit_status

samplerVars == <<num_samples, total_minutes, gap_minutes, day_jitter_scale,
                 day_jitter_max, day_jitter, fragment_length, iter,
                 time_offsets, spc, ret, exc, attempts, calls>>
mainVars == <<day, schedule, generated, stdout_rows>>
testVars == <<i, log, exit_status>>
vars == <<args, pc, samplerVars, mainVars, testVars>>

----------------------------------------------------------------------------
(* Bounds of the model.                                                    *)

MaxSamples == 3
MaxMinutes == 6
MaxSamplingMin == 4
MaxGap == 2
MaxJitterScale == 1
MaxDays == 2
MaxTestIters == 2

\* start_time strings as strptime parses them: <<hour, minute>>.
StartTimes == {<<9, 0>>, <<23, 58>>}

----------------------------------------------------------------------------
(* Program constants.                                                      *)

MAX_ITERS == 1000

\* datetime.timedelta keeps days and seconds.
SecondsPerMinute == 60
SecondsPerHour == 3600
SecondsPerDay == 86400
MinutesPerDay == 1440

----------------------------------------------------------------------------
(* Python values.                                                          *)

\* A value that is either None or a list.
NoneVal == [isNone |-> TRUE, val |-> <<>>]
ListVal(s) == [isNone |-> FALSE, val |-> s]

\* min() of a non-empty list.
MinOf(s) == CHOOSE m \in {s[k] : k \in 1..Len(s)} :
                \A k \in 1..Len(s) : m <= s[k]

\* a // b for b > 0.
FloorDiv(a, b) == a \div b

----------------------------------------------------------------------------
(* random_minute_offsets                                                   *)

\* [time_offsets[i + 1] - time_offsets[i] for i in range(len - 1)]
Diffs(offs) == [k \in 1..(Len(offs) - 1) |-> offs[k + 1] - offs[k]]

\* Faulty variant: the fragments are counted from one.
TimeOffsetsOneBased(draws, n, flen, jitter) ==
    [k \in 1..n |-> draws[k] + (k * flen) + jitter]

\* Faulty variant: the fragment's own start is left out.
TimeOffsetsNoFragment(draws, n, flen, jitter) ==
    [k \in 1..n |-> draws[k] + jitter]

\* [randrange(fragment_length) + i * fragment_length + day_jitter
\*  for i in range(num_samples)], for the draws given.
TimeOffsets(draws, n, flen, jitter) ==
    [k \in 1..n |-> draws[k] + ((k - 1) * flen) + jitter]

\* Faulty variant: the single-sample shortcut is missing.
SingleSampleNever(n) == FALSE

\* if num_samples == 1
SingleSample(n) == n = 1

\* Faulty variant: only the first difference is tested.
AcceptsFirstOnly(diffs, gap) == diffs[1] > gap

\* Faulty variant: the gap test is not strict.
AcceptsAtLeast(diffs, gap) == MinOf(diffs) >= gap

\* if min(diffs) > gap_minutes
Accepts(diffs, gap) == MinOf(diffs) > gap

\* Faulty variant: the counter advances by two.
IterNextTwo(it) == it + 2

\* Faulty variant: the counter wraps and never reaches MAX_ITERS.
IterNextWrap(it) == (it + 1) % MAX_ITERS

\* iter += 1
IterNext(it) == it + 1

\* Faulty variant: the upper end of the jitter range is one too far.
JitterDrawsTooFar(jmax) == 0..(jmax + 1)

\* random.randrange(day_jitter_max + 1)
JitterDraws(jmax) == 0..jmax

\* Faulty variant: a fragment is never shorter than one minute.
FragmentLengthClamped(usable, n) ==
    IF FloorDiv(usable, n) < 1 THEN 1 ELSE FloorDiv(usable, n)

\* fragment_length = total_minutes // num_samples
FragmentLength(usable, n) == FloorDiv(usable, n)

\* The call itself: the parameters are bound, nothing has run yet.
CallSampler(n, total, gap, scale) ==
    /\ num_samples' = n
    /\ total_minutes' = total
    /\ gap_minutes' = gap
    /\ day_jitter_scale' = scale
    /\ spc' = "called"
    /\ attempts' = 0
    /\ calls' = calls + 1
    \* a fresh frame: no local is bound yet
    /\ day_jitter_max' = 0 /\ day_jitter' = 0 /\ fragment_length' = 0
    /\ iter' = 0 /\ time_offsets' = <<>> /\ ret' = NoneVal
    /\ UNCHANGED exc

\* Lines 53-57: everything before the loop.
Setup ==
    /\ spc = "called"
    /\ LET jmax == gap_minutes * day_jitter_scale
           usable == total_minutes - jmax
       IN /\ day_jitter_max' = jmax
          /\ total_minutes' = usable
          /\ IF jmax + 1 <= 0
             THEN \* randrange of an empty range
                  /\ exc' = "ValueError"
                  /\ spc' = "raised"
                  /\ UNCHANGED <<day_jitter, fragment_length, iter>>
             ELSE \E j \in JitterDraws(jmax) :
                  /\ day_jitter' = j
                  /\ IF num_samples = 0
                     THEN /\ exc' = "ZeroDivisionError"
                          /\ spc' = "raised"
                          /\ UNCHANGED <<fragment_length, iter>>
                     ELSE /\ fragment_length' = FragmentLength(usable, num_samples)
                          /\ iter' = 0
                          /\ spc' = "loop"
                          /\ exc' = exc
    /\ UNCHANGED <<num_samples, gap_minutes, day_jitter_scale, time_offsets,
                   ret, attempts, calls>>
    /\ UNCHANGED <<args, pc, mainVars, testVars>>

\* Lines 58-72: one pass through the loop body.
Attempt ==
    /\ spc = "loop"
    /\ iter < MAX_ITERS
    /\ attempts' = attempts + 1
    /\ IF fragment_length <= 0
       THEN \* randrange(fragment_length): empty range
            /\ exc' = "ValueError"
            /\ spc' = "raised"
            /\ UNCHANGED <<time_offsets, ret, iter>>
       ELSE \E draws \in [1..num_samples -> 0..(fragment_length - 1)] :
            LET offs == TimeOffsets(draws, num_samples, fragment_length,
                                    day_jitter)
            IN /\ time_offsets' = offs
               /\ IF SingleSample(num_samples)
                  THEN /\ ret' = ListVal(offs)
                       /\ spc' = "returned"
                       /\ UNCHANGED <<iter, exc>>
                  ELSE IF Len(Diffs(offs)) = 0
                  THEN \* min() of an empty list
                       /\ exc' = "ValueError"
                       /\ spc' = "raised"
                       /\ UNCHANGED <<iter, ret>>
                  ELSE IF Accepts(Diffs(offs), gap_minutes)
                  THEN /\ ret' = ListVal(offs)
                       /\ spc' = "returned"
                       /\ UNCHANGED <<iter, exc>>
                  ELSE /\ iter' = IterNext(iter)
                       /\ UNCHANGED <<spc, ret, exc>>
    /\ UNCHANGED <<num_samples, total_minutes, gap_minutes, day_jitter_scale,
                   day_jitter_max, day_jitter, fragment_length, calls>>
    /\ UNCHANGED <<args, pc, mainVars, testVars>>

\* Line 73: the loop condition failed.
Exhaust ==
    /\ spc = "loop"
    /\ ~(iter < MAX_ITERS)
    /\ ret' = NoneVal
    /\ spc' = "returned"
    /\ UNCHANGED <<num_samples, total_minutes, gap_minutes, day_jitter_scale,
                   day_jitter_max, day_jitter, fragment_length, iter,
                   time_offsets, exc, attempts, calls>>
    /\ UNCHANGED <<args, pc, mainVars, testVars>>

----------------------------------------------------------------------------
(* A direct call of random_minute_offsets.                                 *)

SamplerArgs ==
    [num_samples : 0..MaxSamples, total_minutes : 0..MaxMinutes,
     gap_minutes : 0..MaxGap, day_jitter_scale : 0..MaxJitterScale]

InitFrame ==
    /\ num_samples = 0 /\ total_minutes = 0 /\ gap_minutes = 0
    /\ day_jitter_scale = 0 /\ day_jitter_max = 0 /\ day_jitter = 0
    /\ fragment_length = 0 /\ iter = 0 /\ time_offsets = <<>>
    /\ spc = "idle" /\ ret = NoneVal /\ exc = "" /\ attempts = 0
    /\ calls = 0

InitRest ==
    /\ day = 0 /\ schedule = <<>> /\ generated = NoneVal
    /\ stdout_rows = <<>>
    /\ i = 0 /\ log = <<>> /\ exit_status = 0

InitSampler ==
    /\ args \in SamplerArgs
    /\ pc = "direct"
    /\ InitFrame
    /\ InitRest

DirectCall ==
    /\ pc = "direct"
    /\ CallSampler(args.num_samples, args.total_minutes, args.gap_minutes,
                   args.day_jitter_scale)
    /\ pc' = "waiting"
    /\ UNCHANGED <<args, mainVars, testVars>>

NextSampler == DirectCall \/ Setup \/ Attempt \/ Exhaust

SpecSampler == InitSampler /\ [][NextSampler]_vars

----------------------------------------------------------------------------
(* datetime and timedelta.  A timedelta is normalised to days and seconds; *)
(* a datetime is a day (counted from start_date) and a second of that day. *)

Timedelta(d, h, m) ==
    LET secs == (h * SecondsPerHour) + (m * SecondsPerMinute)
    IN [days |-> d + FloorDiv(secs, SecondsPerDay),
        seconds |-> secs % SecondsPerDay]

\* Faulty variant: the seconds wrap and the day is not carried.
DatetimeAddNoCarry(dt, td) ==
    [day |-> dt.day + td.days,
     second |-> (dt.second + td.seconds) % SecondsPerDay]

DatetimeAdd(dt, td) ==
    LET secs == dt.second + td.seconds
    IN [day |-> dt.day + td.days + FloorDiv(secs, SecondsPerDay),
        second |-> secs % SecondsPerDay]

\* str_to_date: midnight of the start date, which is day 0 of the model.
start_date == [day |-> 0, second |-> 0]

\* time_str_to_delta, from the hour and minute strptime parsed.
time_str_to_delta(hm) == Timedelta(0, hm[1], hm[2])

\* ema_time.strftime("%Y-%m-%d %H:%M:00")
Strftime(dt) ==
    [date |-> dt.day,
     hour |-> FloorDiv(dt.second, SecondsPerHour),
     minute |-> FloorDiv(dt.second % SecondsPerHour, SecondsPerMinute),
     second |-> 0]

\* Faulty variant: the offsets are taken as hours.
random_timedeltas_hours(offsets) ==
    [k \in 1..Len(offsets) |-> Timedelta(0, offsets[k], 0)]

\* random_timedeltas: [timedelta(minutes=ofs) for ofs in offsets]
random_timedeltas(offsets) ==
    [k \in 1..Len(offsets) |-> Timedelta(0, 0, offsets[k])]

\* make_sample_times: [date + start_delta + sample_delta for ...]
make_sample_times(date, start_delta, offsets) ==
    LET sample_deltas == random_timedeltas(offsets)
    IN [k \in 1..Len(sample_deltas) |->
           DatetimeAdd(DatetimeAdd(date, start_delta), sample_deltas[k])]

\* Faulty variant: the counter is enumerate's own, 0-based.
InstanceZeroBased(instance_num) == instance_num

\* row["redcap_repeat_instance"] = instance_num + 1
InstanceOf(instance_num) == instance_num + 1

\* schedule_to_dicts; enumerate counts from 0, sequences from 1.
schedule_to_dicts(sched, event_name, instrument_field) ==
    LET keys == {"record_field", "redcap_repeat_instance", "sched_field"}
                \cup (IF event_name # "None"
                      THEN {"redcap_event_name"} ELSE {})
                \cup (IF instrument_field # "None"
                      THEN {"redcap_repeat_instrument"} ELSE {})
        row(p) == [key \in keys |->
                     CASE key = "record_field" -> "record_id"
                       [] key = "redcap_event_name" -> event_name
                       [] key = "redcap_repeat_instrument" -> instrument_field
                       [] key = "redcap_repeat_instance" -> InstanceOf(p - 1)
                       [] key = "sched_field" -> Strftime(sched[p])]
    IN [p \in 1..Len(sched) |-> row(p)]

----------------------------------------------------------------------------
(* main: generate_schedule, then schedule_to_dicts and the CSV rows.       *)

\* gap_min also takes one large value, a whole day of minutes.
MainArgs ==
    [start_time : StartTimes, days : 0..MaxDays,
     samples_per_day : 0..MaxSamples, sampling_min : 0..MaxSamplingMin,
     gap_min : (0..MaxGap) \cup {MinutesPerDay}]

OptionValues == {"None", "given"}

InitMain ==
    /\ args \in MainArgs
    /\ pc = "generate"
    /\ InitFrame
    /\ InitRest

\* Lines 135-140, 105, 79: the day's call of the sampler.
GenerateDay ==
    /\ pc = "generate"
    /\ day < args.days
    /\ CallSampler(args.samples_per_day, args.sampling_min, args.gap_min, 0)
    /\ pc' = "sampling"
    /\ UNCHANGED <<args, mainVars, testVars>>

\* Faulty variant: the loop never moves on to the next day.
DayNextSame(d) == d

\* for day in range(days)
DayNext(d) == d + 1

\* Faulty variant: every day is generated on the start date.
GenDateFixed(d) == start_date

\* gen_date = start_date + timedelta(days=day)
GenDate(d) == DatetimeAdd(start_date, Timedelta(d, 0, 0))

\* Faulty variant: None is taken for an empty list of offsets.
IterateResultLenient(r) == ""

\* What random_timedeltas does with the sampler's return value: iterating
\* None raises TypeError, which nothing catches.
IterateResult(r) == IF r.isNone THEN "TypeError" ELSE ""

\* Lines 77-80, 106-109, 141-142: the sampler returned.
DayReturned ==
    /\ pc = "sampling"
    /\ spc = "returned"
    /\ IF IterateResult(ret) # ""
       THEN /\ exc' = IterateResult(ret)
            /\ pc' = "failed"
            /\ exit_status' = 1
            /\ UNCHANGED <<day, schedule>>
       ELSE LET gen_date == GenDate(day)
                start_delta == time_str_to_delta(args.start_time)
            IN /\ schedule' = schedule \o
                     make_sample_times(gen_date, start_delta, ret.val)
               /\ day' = DayNext(day)
               /\ pc' = "generate"
               /\ UNCHANGED <<exc, exit_status>>
    /\ spc' = "idle"
    /\ UNCHANGED <<num_samples, total_minutes, gap_minutes, day_jitter_scale,
                   day_jitter_max, day_jitter, fragment_length, iter,
                   time_offsets, ret, attempts, calls>>
    /\ UNCHANGED <<args, generated, stdout_rows, i, log>>

\* The sampler raised: the exception unwinds generate_schedule and main.
DayRaised ==
    /\ pc = "sampling"
    /\ spc = "raised"
    /\ pc' = "failed"
    /\ exit_status' = 1
    /\ spc' = "idle"
    /\ UNCHANGED <<num_samples, total_minutes, gap_minutes, day_jitter_scale,
                   day_jitter_max, day_jitter, fragment_length, iter,
                   time_offsets, ret, exc, attempts, calls>>
    /\ UNCHANGED <<args, mainVars, i, log>>

\* Line 143: return schedule.
GenerateReturn ==
    /\ pc = "generate"
    /\ ~(day < args.days)
    /\ generated' = ListVal(schedule)
    /\ pc' = "to_dicts"
    /\ UNCHANGED <<args, samplerVars, day, schedule, stdout_rows, testVars>>

\* Lines 204-211: the rows, the header from the first row, the rows written.
MainWrite ==
    /\ pc = "to_dicts"
    /\ \E event_name \in OptionValues, instrument_field \in OptionValues :
         LET redcap_rows == schedule_to_dicts(generated.val, event_name,
                                              instrument_field)
         IN IF Len(redcap_rows) = 0
            THEN \* redcap_rows[0]
                 /\ exc' = "IndexError"
                 /\ pc' = "failed"
                 /\ exit_status' = 1
                 /\ UNCHANGED stdout_rows
            ELSE /\ stdout_rows' = redcap_rows
                 /\ pc' = "done"
                 /\ UNCHANGED <<exc, exit_status>>
    /\ UNCHANGED <<num_samples, total_minutes, gap_minutes, day_jitter_scale,
                   day_jitter_max, day_jitter, fragment_length, iter,
                   time_offsets, spc, ret, attempts, calls>>
    /\ UNCHANGED <<args, day, schedule, generated, i, log>>

NextMain ==
    \/ GenerateDay \/ Setup \/ Attempt \/ Exhaust
    \/ DayReturned \/ DayRaised \/ GenerateReturn \/ MainWrite

SpecMain == InitMain /\ [][NextMain]_vars

----------------------------------------------------------------------------
(* interval_test                                                           *)

TestArgs ==
    [iters : 0..MaxTestIters, num_samples : 0..MaxSamples,
     sampling_minutes : 0..MaxSamplingMin, gap_minutes : 0..MaxGap]

InitTest ==
    /\ args \in TestArgs
    /\ pc = "test"
    /\ InitFrame
    /\ InitRest

\* Lines 219-220: the next iteration's call.
TestCall ==
    /\ pc = "test"
    /\ i < args.iters
    /\ CallSampler(args.num_samples, args.sampling_minutes,
                   args.gap_minutes, 0)
    /\ pc' = "test_sampling"
    /\ UNCHANGED <<args, mainVars, testVars>>

\* Faulty variant: a missing solution is not noticed.
NoSolutionIgnored(results) == FALSE

\* if results is None
NoSolution(results) == results.isNone

\* Lines 221-224: the result is logged; None ends the process.
TestReturned ==
    /\ pc = "test_sampling"
    /\ spc = "returned"
    /\ log' = Append(log, [run |-> i, results |-> ret])
    /\ IF NoSolution(ret)
       THEN /\ exit_status' = 1
            /\ pc' = "exited"
            /\ UNCHANGED i
       ELSE /\ i' = i + 1
            /\ pc' = "test"
            /\ UNCHANGED exit_status
    /\ spc' = "idle"
    /\ UNCHANGED <<num_samples, total_minutes, gap_minutes, day_jitter_scale,
                   day_jitter_max, day_jitter, fragment_length, iter,
                   time_offsets, ret, exc, attempts, calls>>
    /\ UNCHANGED <<args, mainVars>>

\* The sampler raised: the traceback ends the process.
TestRaised ==
    /\ pc = "test_sampling"
    /\ spc = "raised"
    /\ exit_status' = 1
    /\ pc' = "failed"
    /\ spc' = "idle"
    /\ UNCHANGED <<num_samples, total_minutes, gap_minutes, day_jitter_scale,
                   day_jitter_max, day_jitter, fragment_length, iter,
                   time_offsets, ret, exc, attempts, calls>>
    /\ UNCHANGED <<args, mainVars, i, log>>

\* The loop is over: interval_test returns and the process ends normally.
TestEnd ==
    /\ pc = "test"
    /\ ~(i < args.iters)
    /\ pc' = "done"
    /\ exit_status' = 0
    /\ UNCHANGED <<args, samplerVars, mainVars, i, log>>

NextTest ==
    \/ TestCall \/ Setup \/ Attempt \/ Exhaust
    \/ TestReturned \/ TestRaised \/ TestEnd

SpecTest == InitTest /\ [][NextTest]_vars

FairSampler == SpecSampler /\ WF_vars(NextSampler)

----------------------------------------------------------------------------
(* Properties of a direct call of random_minute_offsets.                   *)

\* fragment_length as the arguments of the call determine it (n >= 1).
ArgFragment ==
    FloorDiv(args.total_minutes - (args.gap_minutes * args.day_jitter_scale),
             args.num_samples)

ValidCall ==
    /\ args.num_samples >= 1
    /\ args.gap_minutes >= 0
    /\ ArgFragment >= 1

ReturnedList == spc = "returned" /\ ~ret.isNone
ReturnedNone == spc = "returned" /\ ret.isNone

\* Some placement of one offset per fragment has every consecutive
\* difference above the gap.
Feasible(n, flen, gap) ==
    \E p \in [1..n -> 0..(flen - 1)] :
        \A k \in 1..(n - 1) : ((p[k + 1] + flen) - p[k]) > gap

Infeasible ==
    /\ args.num_samples >= 2
    /\ ArgFragment >= 1
    /\ ~Feasible(args.num_samples, ArgFragment, args.gap_minutes)

\* C1: for a valid configuration the offsets random_minute_offsets returns
\* are exactly num_samples values, each in [0, total_minutes), strictly
\* increasing, every consecutive difference strictly above gap_minutes.
C1_ReturnedOffsetsSpaced ==
    (ReturnedList /\ ValidCall) =>
        /\ Len(ret.val) = args.num_samples
        /\ \A k \in 1..Len(ret.val) :
             0 <= ret.val[k] /\ ret.val[k] < args.total_minutes
        /\ \A k \in 1..(Len(ret.val) - 1) :
             /\ ret.val[k] < ret.val[k + 1]
             /\ (ret.val[k + 1] - ret.val[k]) > args.gap_minutes

\* Three offsets accepted under a positive gap, after a rejected attempt.
C1_Witness ==
    /\ ReturnedList /\ ValidCall
    /\ args.num_samples = 3 /\ args.gap_minutes = 1
    /\ iter > 0

\* C2: for an infeasible configuration every attempt is rejected, and the
\* call ends only by returning None, after exactly MAX_ITERS attempts.
C2_InfeasibleExhausts ==
    Infeasible =>
        /\ spc # "raised"
        /\ spc \in {"loop", "returned"} => attempts = iter
        /\ spc = "returned" => (ret.isNone /\ attempts = MAX_ITERS)

\* Three samples in three minutes, two minutes apart: budget exhausted.
C2_Witness ==
    /\ Infeasible /\ ReturnedNone
    /\ attempts = MAX_ITERS
    /\ args.num_samples = 3 /\ args.total_minutes = 3 /\ args.gap_minutes = 2

\* C5: with num_samples = 1 and fragment_length >= 1 the first attempt is
\* accepted whatever gap_minutes is: one attempt, none rejected, and one
\* offset in [0, total_minutes) returned.
C5_SingleSampleFirstAttempt ==
    (args.num_samples = 1 /\ ArgFragment >= 1) =>
        /\ spc # "raised"
        /\ iter = 0
        /\ attempts <= 1
        /\ spc = "returned" =>
             /\ attempts = 1
             /\ ~ret.isNone
             /\ Len(ret.val) = 1
             /\ 0 <= ret.val[1] /\ ret.val[1] < args.total_minutes

\* A single sample returned although the gap is as long as the window.
C5_Witness ==
    /\ ReturnedList
    /\ args.num_samples = 1 /\ ArgFragment >= 1
    /\ args.gap_minutes >= args.total_minutes
    /\ args.day_jitter_scale = 0

SamplerEnded == spc \in {"returned", "raised"}

\* C7: every call ends after at most MAX_ITERS attempts: the counter never
\* passes MAX_ITERS, a rejected attempt advances it by exactly one, the
\* loop is left only by an accepted attempt, by an exception or with the
\* counter at MAX_ITERS, and the call always ends.
C7_BoundedTermination ==
    /\ [](attempts <= MAX_ITERS /\ iter <= MAX_ITERS)
    /\ [][(spc = "loop" /\ spc' = "loop") =>
             (iter' = iter + 1 /\ attempts' = attempts + 1)]_vars
    /\ [][(spc = "loop" /\ spc' = "returned") =>
             (~ret'.isNone \/ iter = MAX_ITERS)]_vars
    /\ <>SamplerEnded

\* The loop left with the budget used up, after MAX_ITERS rejections.
C7_Witness == ReturnedNone /\ iter = MAX_ITERS /\ attempts = MAX_ITERS

----------------------------------------------------------------------------
(* Properties of generate_schedule and main.                               *)

\* A datetime as seconds since midnight of start_date.
SecondsOf(dt) == (dt.day * SecondsPerDay) + dt.second

\* The start of day k's sampling window, in seconds since start_date.
WindowStart(k) ==
    (k * SecondsPerDay) + (args.start_time[1] * SecondsPerHour)
                        + (args.start_time[2] * SecondsPerMinute)

\* The day whose call produced entry p of a schedule (p counts from 1).
DayOfEntry(p) == FloorDiv(p - 1, args.samples_per_day)

\* Entry p lies in the sampling window of the day that produced it.
InDayWindow(sched, p) ==
    /\ WindowStart(DayOfEntry(p)) <= SecondsOf(sched[p])
    /\ SecondsOf(sched[p]) <
           WindowStart(DayOfEntry(p)) + (args.sampling_min * SecondsPerMinute)

\* Entries of one day are in strictly ascending time order.
AscendingWithinDays(sched) ==
    \A p \in 1..(Len(sched) - 1) :
        DayOfEntry(p) = DayOfEntry(p + 1) =>
            SecondsOf(sched[p]) < SecondsOf(sched[p + 1])

\* The sampling window ends by midnight of the day it starts on.
WindowWithinDay ==
    ((args.start_time[1] * 60) + args.start_time[2]) + args.sampling_min
        <= MinutesPerDay

\* C3 as stated: the returned schedule has days * samples_per_day entries,
\* entry p carries the calendar date start_date + DayOfEntry(p) days, and
\* each day's entries are in strictly ascending time order.
C3_EntriesOnCalendarDay ==
    ~generated.isNone =>
        /\ Len(generated.val) = args.days * args.samples_per_day
        /\ \A p \in 1..Len(generated.val) :
             generated.val[p].day = DayOfEntry(p)
        /\ AscendingWithinDays(generated.val)

\* C3 (amended): the returned schedule has days * samples_per_day entries,
\* entry p lies in the sampling window of start_date + DayOfEntry(p) days
\* (so the groups are in ascending order of the day they were generated
\* for), it carries that calendar date when the window ends by midnight,
\* and each day's entries are in strictly ascending time order.
C3_EntriesInDayWindow ==
    ~generated.isNone =>
        /\ Len(generated.val) = args.days * args.samples_per_day
        /\ \A p \in 1..Len(generated.val) :
             /\ InDayWindow(generated.val, p)
             /\ WindowWithinDay => generated.val[p].day = DayOfEntry(p)
        /\ AscendingWithinDays(generated.val)

\* Two days of two samples returned, from a window that crosses midnight.
C3_Witness ==
    /\ ~generated.isNone
    /\ args.days = 2 /\ args.samples_per_day = 2
    /\ Len(generated.val) = 4
    /\ ~WindowWithinDay
    /\ generated.val[2].day = 1

\* C4: when the sampler returns None to make_sample_times the next step is
\* the failure of the whole generation; a failed generation has returned no
\* schedule and written no rows, and nothing runs after it.
C4_AtomicGeneration ==
    /\ [][(pc = "sampling" /\ spc = "returned" /\ ret.isNone) =>
             (pc' = "failed" /\ exc' = "TypeError")]_vars
    /\ []((pc = "failed" /\ exc = "TypeError") =>
             (generated.isNone /\ stdout_rows = <<>> /\ exit_status # 0))
    /\ [][pc = "failed" => UNCHANGED vars]_vars

\* Day 1 exhausted the budget after day 0's entries had been appended.
C4_Witness ==
    /\ pc = "failed" /\ exc = "TypeError"
    /\ day = 1 /\ Len(schedule) = args.samples_per_day
    /\ args.samples_per_day = 2
    /\ attempts = MAX_ITERS

\* C6: every timestamp appended for a day lies in that day's window
\* [date + start_delta, date + start_delta + sampling_min), and two
\* timestamps of the same day are at least gap_min + 1 minutes apart.
C6_TimestampsInWindowAndSpaced ==
    /\ \A p \in 1..Len(schedule) : InDayWindow(schedule, p)
    /\ \A p \in 1..Len(schedule), q \in 1..Len(schedule) :
         (p < q /\ DayOfEntry(p) = DayOfEntry(q)) =>
             SecondsOf(schedule[q]) - SecondsOf(schedule[p])
                 >= (args.gap_min + 1) * SecondsPerMinute

\* Two timestamps of one day exactly gap_min + 1 minutes apart, the later
\* one in the last minute of the window.
C6_Witness ==
    /\ Len(schedule) >= 2
    /\ args.samples_per_day = 2 /\ args.gap_min = 2
    /\ SecondsOf(schedule[2]) - SecondsOf(schedule[1])
           = (args.gap_min + 1) * SecondsPerMinute
    /\ SecondsOf(schedule[2])
           = WindowStart(0) + ((args.sampling_min - 1) * SecondsPerMinute)

\* C9: the rows written are one per schedule entry, in schedule order,
\* and row p (counted from 1) has repeat instance p: 1, 2, ...,
\* days * samples_per_day.
C9_InstancesCountFromOne ==
    pc = "done" =>
        /\ Len(stdout_rows) = Len(generated.val)
        /\ Len(stdout_rows) = args.days * args.samples_per_day
        /\ \A p \in 1..Len(stdout_rows) :
             /\ stdout_rows[p]["redcap_repeat_instance"] = p
             /\ stdout_rows[p]["sched_field"].date = generated.val[p].day
             /\ (stdout_rows[p]["sched_field"].hour * SecondsPerHour)
                  + (stdout_rows[p]["sched_field"].minute * SecondsPerMinute)
                  + stdout_rows[p]["sched_field"].second
                = generated.val[p].second

\* Rows of two days of two samples: the counter runs on into day 1.
C9_Witness ==
    /\ pc = "done"
    /\ args.days = 2 /\ args.samples_per_day = 2
    /\ Len(stdout_rows) = 4
    /\ stdout_rows[3]["redcap_repeat_instance"] = 3
    /\ stdout_rows[3]["sched_field"].date > stdout_rows[2]["sched_field"].date

----------------------------------------------------------------------------
(* Properties of interval_test.                                            *)

TestEnded == pc \in {"done", "exited", "failed"}

\* Every logged run but the last reported offsets; the last reported None.
ExhaustedAtLastRun ==
    /\ Len(log) >= 1
    /\ log[Len(log)].results.isNone
    /\ \A k \in 1..(Len(log) - 1) : ~log[k].results.isNone

\* Every iteration ran and reported offsets.
AllRunsReported ==
    /\ Len(log) = args.iters
    /\ \A k \in 1..Len(log) : ~log[k].results.isNone

\* The runs are logged in order, one call of the sampler each.
RunsInOrder ==
    /\ \A k \in 1..Len(log) : log[k].run = k - 1
    /\ calls \in {Len(log), Len(log) + 1}

\* C10 as stated: the sampler is called once per iteration in order; the
\* process ends either at the first exhausted iteration, with a nonzero
\* status and no later iteration, or, no iteration having exhausted the
\* budget, with all iterations run and reported.
C10_AllRunUnlessExhausted ==
    /\ RunsInOrder
    /\ TestEnded =>
         IF \E k \in 1..Len(log) : log[k].results.isNone
         THEN ExhaustedAtLastRun /\ exit_status # 0 /\ calls = Len(log)
         ELSE AllRunsReported /\ calls = args.iters

\* C10 (amended): the sampler is called once per iteration in order; the
\* first exhausted iteration ends the process with a nonzero status and
\* nothing runs after it; a call that raises (num_samples = 0, or
\* fragment_length <= 0) ends the process with a nonzero status at that
\* iteration; otherwise all iterations run, each reports its offsets, and
\* the process ends normally.
C10_AllRunUnlessExhaustedOrRaised ==
    /\ []RunsInOrder
    /\ [][(pc = "test_sampling" /\ spc = "returned" /\ ret.isNone) =>
             pc' = "exited"]_vars
    /\ [](pc = "exited" =>
             (ExhaustedAtLastRun /\ exit_status # 0 /\ calls = Len(log)))
    /\ [][pc = "exited" => UNCHANGED vars]_vars
    /\ [](pc = "failed" =>
             /\ exc \in {"ZeroDivisionError", "ValueError"}
             /\ exit_status # 0
             /\ Len(log) < args.iters
             /\ \A k \in 1..Len(log) : ~log[k].results.isNone)
    /\ []((args.num_samples >= 1
             /\ args.sampling_minutes >= args.num_samples) => pc # "failed")
    /\ [](pc = "done" => (AllRunsReported /\ exit_status = 0
                            /\ calls = args.iters))

\* The first of two iterations exhausted the budget: the second never ran.
C10_Witness ==
    /\ pc = "exited"
    /\ args.iters = 2
    /\ Len(log) = 1 /\ calls = 1
    /\ attempts = MAX_ITERS

----------------------------------------------------------------------------
(* Properties of the attempts of random_minute_offsets.                    *)

\* gap_minutes * day_jitter_scale, from the arguments of the call.
ArgJitterMax == args.gap_minutes * args.day_jitter_scale

\* The loop has generated a list of offsets at least once.
HasAttempted == spc \in {"loop", "returned"} /\ attempts > 0

\* The list an attempt builds from the draws p, as the source computes it
\* from the arguments of the call.
Placed(p) ==
    [k \in 1..args.num_samples |->
        p[k] + ((k - 1) * ArgFragment) + day_jitter]

\* C11: day_jitter is drawn once, from [0, jitter_max] inclusive, before
\* the first attempt, and no retry changes it; every attempt, the first
\* or a retry, can draw any list of num_samples fragment offsets, and the
\* same day_jitter is added to each sample of an attempt.
C11_JitterDrawnOnce ==
    /\ [](spc \in {"loop", "returned"} =>
             /\ day_jitter_max = ArgJitterMax
             /\ day_jitter \in 0..ArgJitterMax)
    /\ [][spc = "called" => attempts' = 0]_vars
    /\ [][spc = "loop" => day_jitter' = day_jitter]_vars
    /\ [](HasAttempted =>
             \A k \in 1..Len(time_offsets) :
                 /\ 0 <= time_offsets[k] - day_jitter
                 /\ time_offsets[k] - day_jitter
                        < args.total_minutes - ArgJitterMax)
    /\ []((spc = "loop" /\ iter < MAX_ITERS /\ ArgFragment >= 1) =>
             \A p \in [1..args.num_samples -> 0..(ArgFragment - 1)] :
                 ENABLED (Attempt /\ time_offsets' = Placed(p)))

\* A retry accepted with the largest jitter: both offsets differ from the
\* only placement that can have been rejected before it.
C11_Witness ==
    /\ ReturnedList /\ iter > 0
    /\ args.num_samples = 2 /\ args.total_minutes = 5
    /\ args.gap_minutes = 1 /\ args.day_jitter_scale = 1
    /\ day_jitter = 1
    /\ time_offsets = <<1, 4>>

\* C12: in every attempt, accepted or rejected, sample i lies in its own
\* fragment, i * fragment_length + day_jitter <= result_i <
\* (i + 1) * fragment_length + day_jitter, so the list is strictly
\* increasing before any gap test.
C12_SamplesInOwnFragments ==
    HasAttempted =>
        /\ Len(time_offsets) = args.num_samples
        /\ \A k \in 1..Len(time_offsets) :
             /\ ((k - 1) * ArgFragment) + day_jitter <= time_offsets[k]
             /\ time_offsets[k] < (k * ArgFragment) + day_jitter
        /\ \A k \in 1..(Len(time_offsets) - 1) :
             time_offsets[k] < time_offsets[k + 1]

\* A rejected attempt of three samples whose first two are one minute
\* apart, on either side of a fragment boundary.
C12_Witness ==
    /\ spc = "loop" /\ iter > 0
    /\ args.num_samples = 3 /\ ArgFragment = 2
    /\ time_offsets[1] = 1 /\ time_offsets[2] = 2

\* Every consecutive difference of the list is above the gap.
AllAboveGap(offs) ==
    \A k \in 1..(Len(offs) - 1) : (offs[k + 1] - offs[k]) > args.gap_minutes

----------------------------------------------------------------------------
(* Properties of the days of generate_schedule.                            *)

\* Calls of the sampler that day's position accounts for.
CallsExpected ==
    IF pc = "sampling" \/ (pc = "failed" /\ exc # "IndexError")
    THEN day + 1 ELSE day

\* C14: generate_schedule calls the sampler once per day, for day indices
\* 0, 1, ... in order, each call made only after every earlier day
\* succeeded; a failed generation makes no further call, so no call is
\* repeated and no day after a failing one is sampled; with at most
\* MAX_ITERS attempts per call a generation makes at most days * MAX_ITERS.
C14_OneCallPerDay ==
    /\ [](calls = CallsExpected /\ calls <= args.days)
    /\ [][calls' # calls =>
             /\ calls' = calls + 1
             /\ pc = "generate" /\ exc = ""
             /\ day = calls
             /\ Len(schedule) = calls * args.samples_per_day]_vars
    /\ [](attempts <= MAX_ITERS)
    /\ [](calls >= 1 =>
             ((calls - 1) * MAX_ITERS) + attempts <= args.days * MAX_ITERS)
    /\ [][pc = "failed" => UNCHANGED vars]_vars

\* Day 0 of two days exhausted the budget: day 1 was never sampled.
C14_Witness ==
    /\ pc = "failed" /\ exc = "TypeError"
    /\ args.days = 2 /\ day = 0 /\ calls = 1
    /\ attempts = MAX_ITERS

----------------------------------------------------------------------------
(* Properties of the configurations of random_minute_offsets.              *)

\* C15: when num_samples > total_minutes - jitter_max (num_samples >= 1),
\* fragment_length is zero or negative and the first attempt raises
\* ValueError: the call returns neither offsets nor None, builds no list
\* and rejects nothing.
C15_RangeFaultOnFirstAttempt ==
    (args.num_samples >= 1
       /\ args.num_samples > args.total_minutes - ArgJitterMax) =>
        /\ spc # "returned"
        /\ iter = 0
        /\ attempts <= 1
        /\ time_offsets = <<>>
        /\ spc = "loop" =>
             /\ fragment_length <= 0
             /\ attempts = 0
             /\ ENABLED (Attempt /\ spc' = "raised")
             /\ ~ENABLED (Attempt /\ spc' # "raised")
        /\ spc = "raised" => (exc = "ValueError" /\ attempts = 1)

\* The fault with a negative fragment length.
C15_Witness ==
    /\ spc = "raised" /\ exc = "ValueError"
    /\ args.num_samples >= 1
    /\ fragment_length < 0
    /\ attempts = 1

\* num_samples * F - 1 >= (num_samples - 1) * (gap_minutes + 1)
SpanSuffices ==
    (args.num_samples * ArgFragment) - 1
        >= (args.num_samples - 1) * (args.gap_minutes + 1)

\* Some placement of one offset per fragment has a consecutive difference
\* that is not above the gap.
Rejectable ==
    \E p \in [1..args.num_samples -> 0..(ArgFragment - 1)] :
        \E k \in 1..(args.num_samples - 1) :
            ((p[k + 1] + ArgFragment) - p[k]) <= args.gap_minutes

\* C17: for num_samples >= 2 and fragment_length F >= 1 an attempt can be
\* accepted exactly when num_samples * F - 1 >= (num_samples - 1) *
\* (gap_minutes + 1); when the inequality fails every attempt is rejected;
\* when some placement is rejectable every attempt can be rejected, up to
\* the last of the MAX_ITERS.
C17_AcceptableIffSpanSuffices ==
    (args.num_samples >= 2 /\ ArgFragment >= 1) =>
        /\ (spc = "loop" /\ iter < MAX_ITERS) =>
             /\ SpanSuffices <=> ENABLED (Attempt /\ spc' = "returned")
             /\ Rejectable => ENABLED (Attempt /\ spc' = "loop")
        /\ ~SpanSuffices =>
             /\ ~ReturnedList
             /\ spc \in {"loop", "returned"} => attempts = iter

\* A configuration that can be accepted, with the budget exhausted.
C17_Witness ==
    /\ args.num_samples = 3 /\ ArgFragment = 2 /\ args.gap_minutes = 1
    /\ SpanSuffices
    /\ ReturnedNone /\ attempts = MAX_ITERS

\* C18: with gap_minutes = 0 and fragment_length >= 1 the first attempt is
\* accepted for any num_samples >= 1 and any draws: nothing is rejected
\* and None is never returned.
C18_ZeroGapFirstAttempt ==
    (args.gap_minutes = 0 /\ args.num_samples >= 1 /\ ArgFragment >= 1) =>
        /\ spc # "raised"
        /\ iter = 0
        /\ attempts <= 1
        /\ spc = "returned" => (~ret.isNone /\ attempts = 1)

\* Three samples accepted with the first two one minute apart.
C18_Witness ==
    /\ ReturnedList
    /\ args.gap_minutes = 0 /\ args.num_samples = 3
    /\ ret.val = <<1, 2, 4>>

====
